---------------------------- MODULE Spec2Model ----------------------------
(***************************************************************************)
(* ps-pingdom-maintenance: the polling program that keeps the uptime-check *)
(* list of one Pingdom maintenance window equal to the list of checks      *)
(* tagged "sla".  The model follows the polling service source             *)
(* (getPingdomChecks, getPingdomMainenanceSchedule, intSliceToString,      *)
(* updatePingdomMaintenanceSchedule, compareSlice,                         *)
(* checkMaintenanceSchedule, pollAPI, mainloop, main).                     *)
(*                                                                         *)
(* Strings are sequences of one-character strings, so that a formatted     *)
(* payload field can be compared character by character and parsed back.   *)
(* Every blocking provider call is one state of the scheduler (pc): the    *)
(* call is in flight in that state and its return is one action.           *)
(***************************************************************************)
EXTENDS Integers, Sequences, FiniteSets, TLC

\* ------------------------------------------------------------------ bounds
\* Check IDs of the polling specification are 1..NumIDs.
NumIDs == 2
\* Timer firings that may be waiting for their tick at one time.
MaxBehind == 2
\* The wall clock shows one of the instants 0..MaxHalfDay, twelve hours apart.
MaxHalfDay == 2
\* Longest ID list of the wide-input specification.
WideLen == 2

\* ------------------------------------------------------------- characters
DigitChars == <<"0", "1", "2", "3", "4", "5", "6", "7", "8", "9">>

\* strconv.Itoa on a non-negative integer: its decimal digits.
RECURSIVE ItoaNat(_)
ItoaNat(n) ==
    IF n < 10 THEN <<DigitChars[n + 1]>>
    ELSE ItoaNat(n \div 10) \o <<DigitChars[(n % 10) + 1]>>

\* strconv.Itoa: a minus sign in front of the digits of a negative integer.
Itoa(n) == IF n < 0 THEN <<"-">> \o ItoaNat(0 - n) ELSE ItoaNat(n)

\* strings.Join(elems, sep): the elements with sep between neighbours only.
RECURSIVE Join(_, _)
Join(elems, sep) ==
    IF Len(elems) = 0 THEN <<>>
    ELSE IF Len(elems) = 1 THEN elems[1]
    ELSE elems[1] \o sep \o Join(Tail(elems), sep)

\* The loop of intSliceToString: valuesText = append(valuesText, Itoa(v[i])).
RECURSIVE ItoaEach(_)
ItoaEach(v) ==
    IF Len(v) = 0 THEN <<>> ELSE <<Itoa(Head(v))>> \o ItoaEach(Tail(v))

IntSliceToString_TrailingComma(v) ==
    IF Len(v) = 0 THEN <<>> ELSE Join(ItoaEach(v), <<",">>) \o <<",">>

\* intSliceToString: convert []int to a comma separated string.
IntSliceToString(v) == Join(ItoaEach(v), <<",">>)

\* --------------------------------------------------------------- reconcile
\* The loop of compareSlice from index i on: false at the first mismatch.
RECURSIVE CompareFrom(_, _, _)
CompareFrom(a, b, i) ==
    IF i > Len(a) THEN TRUE
    ELSE IF a[i] # b[i] THEN FALSE
    ELSE CompareFrom(a, b, i + 1)

CompareSlice_LengthOnly(a, b) == Len(a) = Len(b)

CompareSlice_AsSets(a, b) ==
    {a[i] : i \in 1..Len(a)} = {b[i] : i \in 1..Len(b)}

\* compareSlice: compare two []int.
CompareSlice(a, b) ==
    IF Len(a) # Len(b) THEN FALSE ELSE CompareFrom(a, b, 1)

\* getUptimeIds: the IDs of the checks, in the order of the response.
RECURSIVE GetUptimeIds(_)
GetUptimeIds(c) ==
    IF Len(c) = 0 THEN <<>> ELSE <<Head(c).id>> \o GetUptimeIds(Tail(c))


CheckMaintenanceSchedule_AppendMissing(m, u) ==
    LET missing == SelectSeq(u, LAMBDA x : \A i \in 1..Len(m.uptime) : m.uptime[i] # x)
    IN  IF Len(missing) = 0
        THEN [upToDate |-> TRUE, schedule |-> m]
        ELSE [upToDate |-> FALSE,
              schedule |-> [m EXCEPT !.uptime = m.uptime \o missing]]

CheckMaintenanceSchedule_KeepsWindow(m, u) ==
    IF ~CompareSlice(m.uptime, u)
    THEN [upToDate |-> FALSE, schedule |-> m]
    ELSE [upToDate |-> TRUE, schedule |-> m]

CheckMaintenanceSchedule_NeverUpToDate(m, u) ==
    [upToDate |-> FALSE, schedule |-> [m EXCEPT !.uptime = u]]

\* checkMaintenanceSchedule: (upToDate, m), with m.Maintenance.Checks.Uptime
\* replaced by u when the two lists differ.
CheckMaintenanceSchedule(m, u) ==
    IF ~CompareSlice(m.uptime, u)
    THEN [upToDate |-> FALSE, schedule |-> [m EXCEPT !.uptime = u]]
    ELSE [upToDate |-> TRUE, schedule |-> m]

\* ------------------------------------------------------------------- time
SecondsPerDay == 24 * 60 * 60

\* The instants the wall clock shows: 11:00 and 23:00 of successive days
\* (Unix seconds; the local zone of the process is UTC).
Times == {k * 12 * 60 * 60 + 11 * 60 * 60 : k \in 0..MaxHalfDay}
StartTime == 11 * 60 * 60

\* t.Year(), t.Month(), t.Day(): the calendar day of an instant, as a day number.
DayOf(t) == t \div SecondsPerDay

\* time.Date(y, m, d, hour, 0, 0, 0, time.UTC).Unix(); a day number past the
\* end of the month is normalised to the following calendar day.
DateUnix(day, hour) == day * SecondsPerDay + hour * 60 * 60

\* ---------------------------------------------------------- update payload
BuildUpdate_EchoFromTo(t, m) ==
    [description    |-> m.description,
     from           |-> m.from,
     to             |-> m.to,
     recurrencetype |-> m.recurrencetype,
     repeatevery    |-> m.repeatevery,
     effectiveto    |-> m.effectiveto,
     uptimeids      |-> IntSliceToString(m.uptime),
     tmsids         |-> IntSliceToString(m.tms)]

\* The MaintenanceScheduleUpdate that updatePingdomMaintenanceSchedule builds
\* from the window m at instant t = time.Now().
BuildUpdate(t, m) ==
    [description    |-> m.description,
     from           |-> DateUnix(DayOf(t), 15),
     to             |-> DateUnix(DayOf(t) + 1, 6),
     recurrencetype |-> m.recurrencetype,
     repeatevery    |-> m.repeatevery,
     effectiveto    |-> m.effectiveto,
     uptimeids      |-> IntSliceToString(m.uptime),
     tmsids         |-> IntSliceToString(m.tms)]

\* ------------------------------------------------------------ the provider
\* Decimal value of a digit string (the provider's reading of one ID).
RECURSIVE AtoiNat(_)
AtoiNat(s) ==
    IF Len(s) = 0 THEN 0
    ELSE 10 * AtoiNat(SubSeq(s, 1, Len(s) - 1))
         + (CHOOSE d \in 0..9 : DigitChars[d + 1] = s[Len(s)])

Atoi(s) == IF Len(s) > 0 /\ s[1] = "-" THEN 0 - AtoiNat(Tail(s)) ELSE AtoiNat(s)

\* The provider's splitting of a comma separated field into its parts.
RECURSIVE SplitComma(_, _)
SplitComma(s, cur) ==
    IF Len(s) = 0 THEN <<cur>>
    ELSE IF Head(s) = "," THEN <<cur>> \o SplitComma(Tail(s), <<>>)
    ELSE SplitComma(Tail(s), cur \o <<Head(s)>>)

RECURSIVE AtoiEach(_)
AtoiEach(parts) ==
    IF Len(parts) = 0 THEN <<>> ELSE <<Atoi(Head(parts))>> \o AtoiEach(Tail(parts))

\* The ID list the provider reads from a uptimeids / tmsids field; the empty
\* string is the empty list.
ParseIds(s) == IF Len(s) = 0 THEN <<>> ELSE AtoiEach(SplitComma(s, <<>>))

\* The window the provider holds after accepting the PUT body.
ProviderApply(w, body) ==
    [description    |-> body.description,
     from           |-> body.from,
     to             |-> body.to,
     recurrencetype |-> body.recurrencetype,
     repeatevery    |-> body.repeatevery,
     effectiveto    |-> body.effectiveto,
     uptime         |-> ParseIds(body.uptimeids),
     tms            |-> ParseIds(body.tmsids)]

\* GET /checks?tags=sla: the checks of the response body, one record per check.
ChecksResponse(ids) == [i \in 1..Len(ids) |-> [id |-> ids[i]]]

\* ----------------------------------------------------------- configuration
\* s is a digit string of at least one digit.
IsDigits(s) ==
    /\ Len(s) > 0
    /\ \A i \in 1..Len(s) : \E d \in 1..10 : DigitChars[d] = s[i]

\* strconv.Atoi returns no error: an optional sign in front of decimal digits
\* (the values of the model are far inside the range of int).
AtoiOk(s) ==
    /\ Len(s) > 0
    /\ IF s[1] \in {"+", "-"} THEN IsDigits(Tail(s)) ELSE IsDigits(s)

\* The value strconv.Atoi returns with a nil error.
AtoiValue(s) ==
    IF s[1] = "-" THEN 0 - AtoiNat(Tail(s))
    ELSE IF s[1] = "+" THEN AtoiNat(Tail(s))
    ELSE AtoiNat(s)

\* getenvInt: the environment variable as an integer, 0 when strconv.Atoi
\* fails on it (os.Getenv gives "" for a variable that is not set).
GetenvInt(s) == IF AtoiOk(s) THEN AtoiValue(s) ELSE 0

\* Env{}: the zero value.
EnvZero == [apiKey |-> <<>>, maintenanceID |-> 0, pollInterval |-> 0, metricsPort |-> <<>>]

DefaultPollInterval == 300
DefaultMetricsPort == <<"9", "6", "0", "0">>

\* newEnv: log.Fatalf on an empty apiKey or a maintenanceID of 0; else the
\* Env, with pollInterval 0 replaced by 300 and metricsPort "" by "9600".
NewEnv(apiKey, maintenanceID, pollInterval, metricsPort) ==
    IF apiKey = <<>> THEN [fatal |-> TRUE, env |-> EnvZero]
    ELSE IF maintenanceID = 0 THEN [fatal |-> TRUE, env |-> EnvZero]
    ELSE [fatal |-> FALSE,
          env |-> [apiKey        |-> apiKey,
                   maintenanceID |-> maintenanceID,
                   pollInterval  |-> IF pollInterval = 0 THEN DefaultPollInterval
                                     ELSE pollInterval,
                   metricsPort   |-> IF metricsPort = <<>> THEN DefaultMetricsPort
                                     ELSE metricsPort]]

\* The arguments main passes to newEnv.
MainEnv(env) ==
    NewEnv(env.API_KEY, GetenvInt(env.MAINTENANCE_ID), GetenvInt(env.POLL_INTERVAL),
           env.METRICS_PORT)

\* time.NewTicker(time.Second * time.Duration(pollInterval)) panics with
\* "non-positive interval for NewTicker" unless the duration is positive
\* (the intervals of the model are far below the overflow of the product).
NewTickerPanics(pollInterval) == ~(pollInterval > 0)

\* --------------------------------------------------------------- domains
\* Values of the environment variables: not set, not a number, zero, a
\* negative and a positive number.
KeyValues == {<<>>, <<"k">>}
IDValues == {<<>>, <<"x">>, <<"0">>, <<"-", "3">>, <<"4", "2">>}
IntervalValues == {<<>>, <<"x">>, <<"0">>, <<"-", "5">>, <<"+", "6", "0">>}
PortValues == {<<>>, <<"8", "0", "8", "0">>}

Environs ==
    [API_KEY : KeyValues, MAINTENANCE_ID : IDValues, POLL_INTERVAL : IntervalValues,
     METRICS_PORT : PortValues]

\* The environment of the quickstart: the two required variables only.
DefaultEnviron ==
    [API_KEY |-> <<"k">>, MAINTENANCE_ID |-> <<"4", "2">>, POLL_INTERVAL |-> <<>>,
     METRICS_PORT |-> <<>>]

\* All sequences over S of length at most n.
RECURSIVE SeqsUpTo(_, _)
SeqsUpTo(S, n) ==
    IF n = 0 THEN {<<>>}
    ELSE LET shorter == SeqsUpTo(S, n - 1)
         IN  shorter \cup {Append(s, x) : s \in shorter, x \in S}

\* Sequences without a repeated element.
Distinct(s) == \A i, j \in 1..Len(s) : i # j => s[i] # s[j]

\* ID lists of the polling specification: every ordering of every subset of
\* the check IDs 1..NumIDs (a check appears once in a list).
IDSeqs == {s \in SeqsUpTo(1..NumIDs, NumIDs) : Distinct(s)}

\* ID lists of the wide-input specification: repetitions allowed, several
\* digits, and the lists of the documented end-to-end scenario.
WideIDs == {5, 9}
ScenarioSeqs == {<<10, 20>>, <<10, 20, 30>>}
WideSeqs == SeqsUpTo(WideIDs, WideLen) \cup ScenarioSeqs
TmsSeqs == {<<>>, <<7>>}

\* The pass-through fields of two maintenance windows.
Profiles ==
    {[description |-> "sla", from |-> 1000, to |-> 2000, recurrencetype |-> "day",
      repeatevery |-> 1, effectiveto |-> 3000],
     [description |-> "night", from |-> 54000, to |-> 108000, recurrencetype |-> "week",
      repeatevery |-> 2, effectiveto |-> 0]}

MkWindow(p, uptime, tms) ==
    [description |-> p.description, from |-> p.from, to |-> p.to,
     recurrencetype |-> p.recurrencetype, repeatevery |-> p.repeatevery,
     effectiveto |-> p.effectiveto, uptime |-> uptime, tms |-> tms]

Windows == {MkWindow(p, s, <<7>>) : p \in {pr \in Profiles : pr.description = "night"}, s \in IDSeqs}
WideWindows == {MkWindow(p, s, t) : p \in Profiles, s \in WideSeqs, t \in TmsSeqs}

\* PingdomMaintenanceSchedule{}: the zero value.
ZeroWindow ==
    [description |-> "", from |-> 0, to |-> 0, recurrencetype |-> "",
     repeatevery |-> 0, effectiveto |-> 0, uptime |-> <<>>, tms |-> <<>>]

\* ------------------------------------------------------------------ state
VARIABLES
    environ,         \* the environment variables of the process
    e,               \* the Env that newEnv returned (EnvZero before)
    teardown,        \* systemTeardown has logged "Shutting down..."
    scrape,          \* last response of GET /metrics: <<>> or <<[total, maintenance]>>
    provChecks,      \* provider: IDs of the checks tagged sla, in response order
    provWin,         \* provider: the maintenance window
    now,             \* the wall clock, as time.Now() reads it
    stable,          \* the environment has become quiet: no change of the
                     \* checks, no foreign edit, no failing call, no signal
    main,            \* main goroutine: "start", "configured", "serving" or
                     \* "mainloop"; or the way the process ended: "fatal",
                     \* "panic" or "exited"
    tickerC,         \* number of ticks waiting in the ticker's channel (0 or 1)
    behind,          \* timer firings so far minus ticks started so far
    pc,              \* pollAPI: "idle" at the select, else the call in flight
    u,               \* pollAPI local u: the desired uptime IDs
    m,               \* pollAPI local m: the window as fetched
    upToDate,        \* pollAPI local upToDate
    schedule,        \* pollAPI local schedule
    put,             \* PUT requests in flight: <<>> or <<[t, body]>>
    err,             \* error of the provider call that returned last
    log,             \* last line pollAPI logged in the current or last tick
    calls,           \* provider calls issued by the current or last tick
    inflight,        \* provider calls issued and not yet returned
    slaTotal,        \* gauge ps_pingdom_maintenance_sla_total
    slaMaintenance   \* gauge ps_pingdom_maintenance_sla_maintenance

vars == <<environ, e, teardown, scrape, provChecks, provWin, now, stable, main, tickerC,
          behind, pc, u, m, upToDate, schedule, put, err, log, calls, inflight,
          slaTotal, slaMaintenance>>

bootVars == <<environ, e, teardown, scrape>>

envVars == <<provChecks, provWin, now, stable>>
tickVars == <<pc, u, m, upToDate, schedule, put, err, log, calls, inflight>>
gauges == <<slaTotal, slaMaintenance>>

FetchErrors == {"transport", "status", "decode"}
UpdateErrors == {"encode", "transport", "status", "read"}

NoCalls == [checks |-> 0, window |-> 0, update |-> 0]

\* The process is running with pollAPI started: main has not returned and
\* nothing has ended the process.
Alive == main \in {"serving", "mainloop"}

\* The process before the ticker has fired: both gauges are new (zero), the
\* loop of pollAPI is at its select.
ProcessInit ==
    /\ stable = FALSE
    /\ teardown = FALSE
    /\ scrape = <<>>
    /\ tickerC = 0
    /\ behind = 0
    /\ pc = "idle"
    /\ u = <<>>
    /\ m = ZeroWindow
    /\ upToDate = FALSE
    /\ schedule = ZeroWindow
    /\ put = <<>>
    /\ err = "nil"
    /\ log = "none"
    /\ calls = NoCalls
    /\ inflight = 0
    /\ slaTotal = 0
    /\ slaMaintenance = 0

\* State after main has called newEnv in the environment of the quickstart,
\* started pollAPI and begun to serve /metrics.
ProgramInit ==
    /\ environ = DefaultEnviron
    /\ e = MainEnv(DefaultEnviron).env
    /\ main = "serving"
    /\ ProcessInit

\* State at the entry of main, in any environment.
BootChecks == {<<1>>, <<2, 1>>}
BootInit ==
    /\ environ \in Environs
    /\ e = EnvZero
    /\ main = "start"
    /\ provChecks \in BootChecks
    /\ provWin = MkWindow(CHOOSE p \in Profiles : p.description = "night", <<1>>, <<7>>)
    /\ now = StartTime
    /\ ProcessInit

Init ==
    /\ provChecks \in IDSeqs
    /\ provWin \in Windows
    /\ now = StartTime
    /\ ProgramInit

WideInit ==
    /\ provChecks \in WideSeqs
    /\ provWin \in WideWindows
    /\ now \in Times
    /\ ProgramInit

\* ----------------------------------------------------------------- ticker
\* The runtime's ticker fires: the tick is put in the channel of capacity 1,
\* or discarded when a tick is already waiting there.
TimerFire_Unbounded ==
    /\ Alive
    /\ behind < MaxBehind
    /\ behind' = behind + 1
    /\ tickerC' = tickerC + 1
    /\ UNCHANGED <<bootVars, envVars, main, tickVars, gauges>>

TimerFire ==
    /\ Alive
    /\ behind < MaxBehind
    /\ behind' = behind + 1
    /\ tickerC' = IF tickerC = 0 THEN 1 ELSE tickerC
    /\ UNCHANGED <<bootVars, envVars, main, tickVars, gauges>>

\* ------------------------------------------------------------- the gauges
\* slaTotal after getPingdomChecks returned: the number of checks on success,
\* 0 on a decode error, untouched on a transport error or a non-2xx status.
ChecksGauge(result, n, old) ==
    CASE result = "nil"       -> n
      [] result = "decode"    -> 0
      [] result = "transport" -> old
      [] result = "status"    -> old

WindowGauge_KeepsOnError(result, n, old) ==
    IF result = "nil" THEN n ELSE old

\* slaMaintenance after getPingdomMainenanceSchedule returned: the length of
\* the uptime list on success, 0 on a transport or decode error, untouched on
\* a non-2xx status.
WindowGauge(result, n, old) ==
    CASE result = "nil"       -> n
      [] result = "decode"    -> 0
      [] result = "transport" -> 0
      [] result = "status"    -> old

\* ------------------------------------------------------------- the tick
\* The locals of one iteration of the loop go out of scope at its break.
EndTick ==
    /\ pc' = "idle"
    /\ u' = <<>>
    /\ m' = ZeroWindow
    /\ upToDate' = FALSE
    /\ schedule' = ZeroWindow
    /\ put' = <<>>
    /\ inflight' = inflight - 1

TickStart_Overlapping ==
    /\ Alive
    /\ tickerC > 0
    /\ tickerC' = tickerC - 1
    /\ behind' = behind - 1
    /\ pc' = "getChecks"
    /\ u' = <<>>
    /\ m' = ZeroWindow
    /\ upToDate' = FALSE
    /\ schedule' = ZeroWindow
    /\ put' = <<>>
    /\ err' = "nil"
    /\ log' = "none"
    /\ calls' = [NoCalls EXCEPT !.checks = 1]
    /\ inflight' = inflight + 1
    /\ UNCHANGED <<bootVars, envVars, main, gauges>>

\* case <-ticker: the loop takes the waiting tick and calls getPingdomChecks.
TickStart ==
    /\ Alive
    /\ pc = "idle"
    /\ tickerC > 0
    /\ tickerC' = tickerC - 1
    /\ behind' = behind - 1
    /\ pc' = "getChecks"
    /\ err' = "nil"
    /\ log' = "none"
    /\ calls' = [NoCalls EXCEPT !.checks = 1]
    /\ inflight' = inflight + 1
    /\ UNCHANGED <<bootVars, envVars, main, u, m, upToDate, schedule, put, gauges>>

\* The results a fetch can return in the current state of the environment.
FetchResults == IF stable THEN {"nil"} ELSE {"nil"} \cup FetchErrors

GetChecksFailed_Fatal(result) ==
    /\ err' = result
    /\ log' = "checksError"
    /\ main' = "exited"
    /\ EndTick
    /\ UNCHANGED calls

GetChecksFailed_GoesOn(result) ==
    /\ err' = result
    /\ log' = "checksError"
    /\ u' = <<>>
    /\ pc' = "getWindow"
    /\ calls' = [calls EXCEPT !.window = @ + 1]
    /\ UNCHANGED <<m, upToDate, schedule, put, inflight, main>>

\* getPingdomChecks returned an error: pollAPI logs it and breaks.
GetChecksFailed(result) ==
    /\ err' = result
    /\ log' = "checksError"
    /\ EndTick
    /\ UNCHANGED <<calls, main>>

\* getPingdomChecks returns.  On success pollAPI takes the IDs and calls
\* getPingdomMainenanceSchedule.
GetChecksReturn ==
    /\ Alive
    /\ pc = "getChecks"
    /\ \E result \in FetchResults :
        /\ slaTotal' = ChecksGauge(result, Len(ChecksResponse(provChecks)), slaTotal)
        /\ IF result = "nil"
           THEN /\ u' = GetUptimeIds(ChecksResponse(provChecks))
                /\ pc' = "getWindow"
                /\ err' = "nil"
                /\ calls' = [calls EXCEPT !.window = @ + 1]
                /\ UNCHANGED <<m, upToDate, schedule, put, log, inflight, main>>
           ELSE GetChecksFailed(result)
    /\ UNCHANGED <<bootVars, envVars, tickerC, behind, slaMaintenance>>

GetWindowReturn_CachedDecision ==
    /\ Alive
    /\ pc = "getWindow"
    /\ \E result \in FetchResults :
        /\ slaMaintenance' = WindowGauge(result, Len(provWin.uptime), slaMaintenance)
        /\ err' = result
        /\ IF result = "nil"
           THEN LET d == IF slaMaintenance = Len(u) /\ slaMaintenance > 0
                         THEN [upToDate |-> TRUE, schedule |-> provWin]
                         ELSE CheckMaintenanceSchedule(provWin, u)
                IN  /\ m' = provWin
                    /\ upToDate' = d.upToDate
                    /\ schedule' = d.schedule
                    /\ IF d.upToDate
                       THEN /\ log' = "upToDate"
                            /\ pc' = "refetch"
                            /\ calls' = [calls EXCEPT !.window = @ + 1]
                            /\ put' = <<>>
                       ELSE /\ put' = <<[t |-> now, body |-> BuildUpdate(now, d.schedule)]>>
                            /\ pc' = "update"
                            /\ calls' = [calls EXCEPT !.update = @ + 1]
                            /\ UNCHANGED log
                    /\ UNCHANGED <<u, inflight>>
           ELSE /\ log' = "maintError"
                /\ EndTick
                /\ UNCHANGED calls
    /\ UNCHANGED <<bootVars, envVars, main, tickerC, behind, slaTotal>>

\* getPingdomMainenanceSchedule returns to line 307.  On success pollAPI runs
\* checkMaintenanceSchedule and either calls updatePingdomMaintenanceSchedule,
\* which builds its payload at once, or logs "up to date" and fetches the
\* window a second time.
GetWindowReturn ==
    /\ Alive
    /\ pc = "getWindow"
    /\ \E result \in FetchResults :
        /\ slaMaintenance' = WindowGauge(result, Len(provWin.uptime), slaMaintenance)
        /\ err' = result
        /\ IF result = "nil"
           THEN LET d == CheckMaintenanceSchedule(provWin, u)
                IN  /\ m' = provWin
                    /\ upToDate' = d.upToDate
                    /\ schedule' = d.schedule
                    /\ IF d.upToDate
                       THEN /\ log' = "upToDate"
                            /\ pc' = "refetch"
                            /\ calls' = [calls EXCEPT !.window = @ + 1]
                            /\ put' = <<>>
                       ELSE /\ put' = <<[t |-> now, body |-> BuildUpdate(now, d.schedule)]>>
                            /\ pc' = "update"
                            /\ calls' = [calls EXCEPT !.update = @ + 1]
                            /\ UNCHANGED log
                    /\ UNCHANGED <<u, inflight>>
           ELSE /\ log' = "maintError"
                /\ EndTick
                /\ UNCHANGED calls
    /\ UNCHANGED <<bootVars, envVars, main, tickerC, behind, slaTotal>>

\* The results updatePingdomMaintenanceSchedule can return, each with whether
\* the provider accepted the PUT: after a failed json.Marshal nothing is sent,
\* a transport error may strike before or after the provider acted, a non-2xx
\* status means it refused, and a failed read of the response body follows a
\* 2xx status.
UpdateResults ==
    IF stable THEN {[err |-> "nil", applied |-> TRUE]}
    ELSE {[err |-> "nil", applied |-> TRUE],
          [err |-> "encode", applied |-> FALSE],
          [err |-> "transport", applied |-> FALSE],
          [err |-> "transport", applied |-> TRUE],
          [err |-> "status", applied |-> FALSE],
          [err |-> "read", applied |-> TRUE]}

UpdateReturn_SetsGauge ==
    /\ Alive
    /\ pc = "update"
    /\ \E r \in UpdateResults :
        /\ r.err \in {"nil"} \cup UpdateErrors
        /\ provWin' = IF r.applied THEN ProviderApply(provWin, put[1].body) ELSE provWin
        /\ err' = r.err
        /\ log' = IF r.err = "nil" THEN log ELSE "updateError"
        /\ slaMaintenance' = IF r.err = "nil" THEN Len(schedule.uptime) ELSE slaMaintenance
    /\ EndTick
    /\ UNCHANGED <<bootVars, provChecks, now, stable, main, tickerC, behind, calls, slaTotal>>

UpdateReturn_Retries ==
    /\ Alive
    /\ pc = "update"
    /\ \E r \in UpdateResults :
        /\ r.err \in {"nil"} \cup UpdateErrors
        /\ provWin' = IF r.applied THEN ProviderApply(provWin, put[1].body) ELSE provWin
        /\ err' = r.err
        /\ log' = IF r.err = "nil" THEN log ELSE "updateError"
        /\ IF r.err # "nil" /\ calls.update < 2
           THEN /\ calls' = [calls EXCEPT !.update = @ + 1]
                /\ UNCHANGED <<pc, u, m, upToDate, schedule, put, inflight>>
           ELSE /\ EndTick
                /\ UNCHANGED calls
    /\ UNCHANGED <<bootVars, provChecks, now, stable, main, tickerC, behind, gauges>>

\* updatePingdomMaintenanceSchedule returns; pollAPI logs an error, if any,
\* and the iteration ends.
UpdateReturn ==
    /\ Alive
    /\ pc = "update"
    /\ \E r \in UpdateResults :
        /\ r.err \in {"nil"} \cup UpdateErrors
        /\ provWin' = IF r.applied THEN ProviderApply(provWin, put[1].body) ELSE provWin
        /\ err' = r.err
        /\ log' = IF r.err = "nil" THEN log ELSE "updateError"
    /\ EndTick
    /\ UNCHANGED <<bootVars, provChecks, now, stable, main, tickerC, behind, calls, gauges>>

\* The second getPingdomMainenanceSchedule of an up-to-date tick returns; its
\* result and error are discarded.
RefetchReturn ==
    /\ Alive
    /\ pc = "refetch"
    /\ \E result \in FetchResults :
        /\ slaMaintenance' = WindowGauge(result, Len(provWin.uptime), slaMaintenance)
        /\ err' = result
    /\ EndTick
    /\ UNCHANGED <<bootVars, envVars, main, tickerC, behind, log, calls, slaTotal>>

SchedNext == TickStart \/ GetChecksReturn \/ GetWindowReturn \/ UpdateReturn \/ RefetchReturn

\* ------------------------------------------------------- the environment
\* s without its i-th element.
RemoveAt(s, i) == SubSeq(s, 1, i - 1) \o SubSeq(s, i + 1, Len(s))

\* s with its i-th and (i+1)-th elements exchanged.
SwapAt(s, i) == [s EXCEPT ![i] = s[i + 1], ![i + 1] = s[i]]

\* The lists one change away from s: a check ID of 1..NumIDs that s lacks is
\* added at the end, one ID is removed, or two neighbours change places.
OneChange(s) ==
    {Append(s, x) : x \in (1..NumIDs) \ {s[i] : i \in 1..Len(s)}}
    \cup {RemoveAt(s, i) : i \in 1..Len(s)}
    \cup {SwapAt(s, i) : i \in 1..(Len(s) - 1)}

\* The checks tagged sla change at the provider: a check gets the tag or
\* loses it, or the provider returns the checks in another order.
ChangeChecks ==
    /\ Alive
    /\ ~stable
    /\ provChecks' \in OneChange(provChecks)
    /\ UNCHANGED <<bootVars, provWin, now, stable, main, tickerC, behind, tickVars, gauges>>

\* Someone else edits the uptime checks of the window at the provider.
EditWindow ==
    /\ Alive
    /\ ~stable
    /\ \E s \in OneChange(provWin.uptime) : provWin' = [provWin EXCEPT !.uptime = s]
    /\ UNCHANGED <<bootVars, provChecks, now, stable, main, tickerC, behind, tickVars, gauges>>

\* From here on the environment is quiet.
Stabilize ==
    /\ Alive
    /\ ~stable
    /\ stable' = TRUE
    /\ UNCHANGED <<bootVars, provChecks, provWin, now, main, tickerC, behind, tickVars, gauges>>

\* Time passes.
ClockAdvance ==
    /\ Alive
    /\ \E t \in Times : t > now /\ now' = t
    /\ UNCHANGED <<bootVars, provChecks, provWin, stable, main, tickerC, behind, tickVars, gauges>>

EnvNext == ChangeChecks \/ EditWindow

\* ----------------------------------------------------- the main goroutine
\* main calls newEnv with the environment: the process ends in log.Fatalf or
\* has its Env.
MainNewEnv ==
    /\ main = "start"
    /\ LET r == MainEnv(environ)
       IN  IF r.fatal
           THEN main' = "fatal" /\ e' = e
           ELSE main' = "configured" /\ e' = r.env
    /\ UNCHANGED <<environ, teardown, scrape, envVars, tickerC, behind, tickVars, gauges>>

\* go pollAPI(e), then http.ListenAndServe: pollAPI creates its ticker, which
\* panics on a non-positive interval and takes the process down; otherwise
\* the loop is at its select and main serves /metrics.
GoPollAPI ==
    /\ main = "configured"
    /\ main' = IF NewTickerPanics(e.pollInterval) THEN "panic" ELSE "serving"
    /\ UNCHANGED <<bootVars, envVars, tickerC, behind, tickVars, gauges>>

Scrape_WaitsForScheduler ==
    /\ main = "serving"
    /\ pc = "idle"
    /\ scrape' = <<[total |-> slaTotal, maintenance |-> slaMaintenance]>>
    /\ UNCHANGED <<environ, e, teardown, envVars, main, tickerC, behind, tickVars, gauges>>

\* GET /metrics is served by a goroutine of the HTTP server: the response
\* carries the values the two gauges have at that moment.
Scrape ==
    /\ main = "serving"
    /\ scrape' = <<[total |-> slaTotal, maintenance |-> slaMaintenance]>>
    /\ UNCHANGED <<environ, e, teardown, envVars, main, tickerC, behind, tickVars, gauges>>

\* http.ListenAndServe returns (the port cannot be bound): main goes on to
\* mainloop, which registers the signal handler and waits.
ListenReturns ==
    /\ main = "serving"
    /\ ~stable
    /\ main' = "mainloop"
    /\ UNCHANGED <<bootVars, envVars, tickerC, behind, tickVars, gauges>>

\* The memory of the process is gone once it has exited: locals, gauges and
\* the ticker read as their zero values.
ProcessGone ==
    /\ tickerC' = 0
    /\ behind' = 0
    /\ pc' = "idle"
    /\ u' = <<>>
    /\ m' = ZeroWindow
    /\ upToDate' = FALSE
    /\ schedule' = ZeroWindow
    /\ put' = <<>>
    /\ err' = "nil"
    /\ log' = "none"
    /\ calls' = NoCalls
    /\ inflight' = 0
    /\ slaTotal' = 0
    /\ slaMaintenance' = 0

\* SIGINT or SIGTERM is delivered.  While main is inside ListenAndServe no
\* handler is registered (signal.Notify is called in mainloop only) and the
\* runtime ends the process at once; in mainloop the signal is received,
\* systemTeardown logs and main returns.  All goroutines end with the process.
Signal ==
    /\ Alive
    /\ ~stable
    /\ teardown' = (main = "mainloop")
    /\ main' = "exited"
    /\ ProcessGone
    /\ UNCHANGED <<environ, e, scrape, envVars>>

Next == TimerFire \/ SchedNext \/ EnvNext \/ Signal

\* Next, and the environment may become quiet for good.
LiveNext == Next \/ Stabilize

WideNext == TimerFire \/ SchedNext \/ ClockAdvance

BootNext ==
    MainNewEnv \/ GoPollAPI \/ ListenReturns \/ Scrape \/ TimerFire \/ SchedNext \/ Signal

\* The polling program in a changing environment, within one half day.
Spec == Init /\ [][Next]_vars

\* The polling program with the ticker firing on, the scheduler running on
\* and every call in flight returning, in an environment that may become quiet.
LiveSpec == Init /\ [][LiveNext]_vars /\ WF_vars(TimerFire) /\ WF_vars(SchedNext)

\* The polling program from a wider set of provider states that nobody else
\* changes, while time passes.
WideSpec == WideInit /\ [][WideNext]_vars

\* The process from the entry of main on, in every environment: start-up,
\* the polling loop, the metrics endpoint and the signals.
BootSpec == BootInit /\ [][BootNext]_vars

\* ------------------------------------------------- the one-shot variant
\* The program of src/main.go: one run of fetch, check and update, with no
\* ticker, no gauges and log.Fatal on every error.

\* contains, from index i on: true at the first element equal to searchInt.
RECURSIVE ContainsFrom(_, _, _)
ContainsFrom(intSlice, searchInt, i) ==
    IF i > Len(intSlice) THEN FALSE
    ELSE IF intSlice[i] = searchInt THEN TRUE
    ELSE ContainsFrom(intSlice, searchInt, i + 1)

\* contains: check if a []int contains a value.
Contains(intSlice, searchInt) == ContainsFrom(intSlice, searchInt, 1)

\* The loop of the one-shot checkMaintenanceSchedule from the i-th desired
\* check on: a check that the uptime list, as grown so far, does not contain
\* is appended to it and upToDate becomes false.
RECURSIVE OneShotCheckLoop(_, _, _, _)
OneShotCheckLoop(uptime, desired, i, ok) ==
    IF i > Len(desired) THEN [upToDate |-> ok, uptime |-> uptime]
    ELSE IF ~Contains(uptime, desired[i])
    THEN OneShotCheckLoop(Append(uptime, desired[i]), desired, i + 1, FALSE)
    ELSE OneShotCheckLoop(uptime, desired, i + 1, ok)

OneShotCheckMaintenanceSchedule_Replaces(w, desired) ==
    CheckMaintenanceSchedule(w, desired)

\* checkMaintenanceSchedule of the one-shot variant: (upToDate, m).
OneShotCheckMaintenanceSchedule(w, desired) ==
    LET r == OneShotCheckLoop(w.uptime, desired, 1, TRUE)
    IN  [upToDate |-> r.upToDate, schedule |-> [w EXCEPT !.uptime = r.uptime]]

\* The MaintenanceScheduleUpdate of the one-shot variant: from and to are
\* those of the window.
OneShotBuildUpdate(w) ==
    [description    |-> w.description,
     from           |-> w.from,
     to             |-> w.to,
     recurrencetype |-> w.recurrencetype,
     repeatevery    |-> w.repeatevery,
     effectiveto    |-> w.effectiveto,
     uptimeids      |-> IntSliceToString(w.uptime),
     tmsids         |-> IntSliceToString(w.tms)]

\* Environments of the one-shot runs: the quickstart's, and one without key.
OneShotEnvirons == {DefaultEnviron, [DefaultEnviron EXCEPT !.API_KEY = <<>>]}

\* State at the entry of the one-shot main.
OneShotInit ==
    /\ environ \in OneShotEnvirons
    /\ e = EnvZero
    /\ main = "start"
    /\ provChecks \in WideSeqs
    /\ provWin \in WideWindows
    /\ now = StartTime
    /\ ProcessInit

\* The process has ended; what the provider holds stays.
OneShotEnds(how) ==
    /\ main' = how
    /\ ProcessGone
    /\ UNCHANGED <<bootVars, provChecks, now, stable>>

\* main calls newEnv (log.Fatalf on an empty key or an ID of 0) and then
\* getPingdomChecks.
OneShotNewEnv ==
    /\ main = "start"
    /\ LET apiKey == environ.API_KEY
           maintenanceID == GetenvInt(environ.MAINTENANCE_ID)
       IN  IF apiKey = <<>> \/ maintenanceID = 0
           THEN /\ main' = "fatal"
                /\ UNCHANGED <<e, pc, calls, inflight>>
           ELSE /\ main' = "oneshot"
                /\ e' = [EnvZero EXCEPT !.apiKey = apiKey, !.maintenanceID = maintenanceID]
                /\ pc' = "getChecks"
                /\ calls' = [NoCalls EXCEPT !.checks = 1]
                /\ inflight' = 1
    /\ UNCHANGED <<environ, teardown, scrape, envVars, tickerC, behind, u, m, upToDate,
                   schedule, put, err, log, gauges>>

\* What a fetch of the one-shot variant can come to: a decoded body, a
\* transport error, a body that does not decode, or (the status code is not
\* looked at) the JSON error body of a non-2xx response, which decodes to
\* the zero value.
OneShotFetchResults == {"nil", "transport", "decode", "status"}

\* getPingdomChecks returns, or ends the process in log.Fatal; main takes
\* the IDs and calls getPingdomMainenanceSchedule.
OneShotChecksReturn ==
    /\ main = "oneshot"
    /\ pc = "getChecks"
    /\ \E result \in OneShotFetchResults :
        IF result \in {"transport", "decode"}
        THEN /\ OneShotEnds("fatal")
             /\ provWin' = provWin
        ELSE /\ u' = IF result = "nil" THEN GetUptimeIds(ChecksResponse(provChecks))
                      ELSE <<>>
             /\ pc' = "getWindow"
             /\ err' = "nil"
             /\ calls' = [calls EXCEPT !.window = @ + 1]
             /\ UNCHANGED <<bootVars, envVars, main, tickerC, behind, m, upToDate,
                            schedule, put, log, inflight, gauges>>

\* getPingdomMainenanceSchedule returns, or ends the process in log.Fatal;
\* main runs checkMaintenanceSchedule.
OneShotWindowReturn ==
    /\ main = "oneshot"
    /\ pc = "getWindow"
    /\ \E result \in OneShotFetchResults :
        IF result \in {"transport", "decode"}
        THEN /\ OneShotEnds("fatal")
             /\ provWin' = provWin
        ELSE LET w == IF result = "nil" THEN provWin ELSE ZeroWindow
                 d == OneShotCheckMaintenanceSchedule(w, u)
             IN  /\ m' = w
                 /\ upToDate' = d.upToDate
                 /\ schedule' = d.schedule
                 /\ pc' = "decided"
                 /\ err' = "nil"
                 /\ inflight' = 0
                 /\ UNCHANGED <<bootVars, envVars, main, tickerC, behind, u, put, log,
                                calls, gauges>>

\* if !upToDate: main calls updatePingdomMaintenanceSchedule, which builds
\* its payload; else it prints "Nothing to do... Exiting." and returns.
OneShotAct ==
    /\ main = "oneshot"
    /\ pc = "decided"
    /\ IF ~upToDate
       THEN /\ put' = <<[t |-> now, body |-> OneShotBuildUpdate(schedule)]>>
            /\ pc' = "update"
            /\ calls' = [calls EXCEPT !.update = @ + 1]
            /\ inflight' = 1
            /\ UNCHANGED <<bootVars, envVars, main, tickerC, behind, u, m, upToDate,
                           schedule, err, log, gauges>>
       ELSE /\ OneShotEnds("exited")
            /\ provWin' = provWin

\* The results of the one-shot update, each with whether the provider
\* accepted the PUT; any status but 200 is an error, an accepted one too.
OneShotUpdateResults ==
    {[err |-> "nil", applied |-> TRUE],
     [err |-> "encode", applied |-> FALSE],
     [err |-> "transport", applied |-> FALSE],
     [err |-> "transport", applied |-> TRUE],
     [err |-> "status", applied |-> FALSE],
     [err |-> "status", applied |-> TRUE],
     [err |-> "read", applied |-> TRUE]}

\* updatePingdomMaintenanceSchedule returns and main ends, or the call ends
\* the process in log.Fatal.
OneShotUpdateReturn ==
    /\ main = "oneshot"
    /\ pc = "update"
    /\ \E r \in OneShotUpdateResults :
        /\ provWin' = IF r.applied THEN ProviderApply(provWin, put[1].body) ELSE provWin
        /\ OneShotEnds(IF r.err = "nil" THEN "exited" ELSE "fatal")

OneShotNext ==
    OneShotNewEnv \/ OneShotChecksReturn \/ OneShotWindowReturn \/ OneShotAct
        \/ OneShotUpdateReturn

\* One run of the one-shot variant, on the wide inputs.
OneShotSpec == OneShotInit /\ [][OneShotNext]_vars

\* ================================================================= claims
\* A tick has taken its decision: both fetches of the tick have succeeded.
Decided == pc \in {"update", "refetch"}

\* C1: for every fetched window uptime list W = m.uptime and every desired
\* list D = u, checkMaintenanceSchedule answers upToDate exactly when W and D
\* have the same length and the same element at every position (so a
\* reordering such as W = [5,9], D = [9,5] is not up to date); when upToDate
\* the window is returned unchanged, otherwise the returned window's uptime
\* list is D.
C1_ReconcileDecision ==
    Decided =>
        /\ upToDate <=> (/\ Len(m.uptime) = Len(u)
                         /\ \A i \in 1..Len(u) : m.uptime[i] = u[i])
        /\ upToDate => schedule = m
        /\ ~upToDate => schedule.uptime = u
        /\ (m.uptime = <<5, 9>> /\ u = <<9, 5>>) => ~upToDate

C1_Witness ==
    /\ pc = "update"
    /\ m.uptime = <<5, 9>>
    /\ u = <<9, 5>>
    /\ schedule.uptime = <<9, 5>>

\* C2: a tick issues the PUT only if the window uptime list it fetched differs
\* from the desired list it fetched; when the two are equal in the same order
\* the tick issues no PUT and logs "up to date".
C2_UpdateOnlyOnDrift ==
    /\ pc = "update" => (m.uptime # u /\ calls.update = 1 /\ Len(put) = 1)
    /\ pc = "refetch" => m.uptime = u
    /\ (Decided /\ m.uptime = u) =>
           (pc = "refetch" /\ log = "upToDate" /\ calls.update = 0 /\ put = <<>>)
    /\ log = "upToDate" => calls.update = 0
    /\ pc # "update" => put = <<>>

C2_Witness ==
    /\ pc = "refetch"
    /\ u = <<2, 1>>
    /\ m.uptime = <<2, 1>>
    /\ log = "upToDate"

\* The window at the provider lists exactly the checks tagged sla, in order.
Converged == provWin.uptime = provChecks

\* C3: once the environment is quiet (the checks no longer change, nobody else
\* edits the window, every call succeeds, the process keeps running), the
\* window at the provider eventually lists the desired checks and from then on
\* stays so, with no further PUT in flight.
C3_Convergence == (stable /\ Alive) ~> [](Converged /\ pc # "update")

\* A quiet environment in which a tick is repairing a drift.
C3_Witness ==
    /\ stable
    /\ pc = "update"
    /\ ~Converged
    /\ ParseIds(put[1].body.uptimeids) = provChecks

\* A provider call of the tick returns in this step (or a signal ends the
\* process in mid-call, which leaves err' = "nil").
CallReturns == pc # "idle" /\ pc' # pc

\* C4: a failing fetch or update ends only its tick: the step in which the
\* call returns its error takes the scheduler to idle and leaves the process
\* running; the last call of a tick takes the scheduler to idle whatever it
\* returns; and in idle a waiting timer firing starts the next tick.
C4_FailureIsolation ==
    /\ [][(CallReturns /\ err' # "nil") => (pc' = "idle" /\ main' = main)]_vars
    /\ [][(CallReturns /\ pc \in {"update", "refetch"}) => pc' = "idle"]_vars
    /\ []((Alive /\ pc = "idle" /\ tickerC = 1) => ENABLED TickStart)

\* A tick has been abandoned on a refused PUT and the next firing is waiting.
C4_Witness ==
    /\ Alive
    /\ pc = "idle"
    /\ log = "updateError"
    /\ err = "status"
    /\ tickerC = 1

\* C5: whenever getPingdomChecks returns an error, of any kind, the gauge
\* slaTotal is 0 when the call returns; whenever
\* getPingdomMainenanceSchedule returns an error, of any kind, the gauge
\* slaMaintenance is 0 when the call returns.
C5_GaugesZeroedOnFailure ==
    /\ [][(CallReturns /\ pc = "getChecks" /\ err' # "nil") => slaTotal' = 0]_vars
    /\ [][(CallReturns /\ pc \in {"getWindow", "refetch"} /\ err' # "nil")
              => slaMaintenance' = 0]_vars

\* The loop takes a tick from the ticker's channel in this step.
TickTaken == tickerC' < tickerC /\ Alive'

\* C6: at most one tick is reconciling at any moment: at most one provider
\* call is outstanding, none while the scheduler is idle, and the loop takes
\* the next tick from the ticker only when the scheduler is idle and every
\* call of the tick before has returned, however many firings have occurred
\* in the meantime.
C6_NoTickOverlap ==
    /\ [](inflight \in {0, 1})
    /\ [](pc = "idle" <=> inflight = 0)
    /\ [][TickTaken => (pc = "idle" /\ inflight = 0)]_vars

\* A tick is still in a call after two further firings of the ticker.
C6_Witness ==
    /\ Alive
    /\ pc = "update"
    /\ inflight = 1
    /\ tickerC = 1
    /\ behind = 2

\* C7, as claimed: every timer firing is followed by its own tick, so that
\* whenever the loop is back at the select with no tick waiting, as many ticks
\* have been started as the timer has fired.
C7_EveryFiringGetsItsTick == (Alive /\ pc = "idle" /\ tickerC = 0) => behind = 0

\* Firings the ticker has discarded: those neither followed by a tick nor
\* waiting in the channel.
Discarded == behind - tickerC

\* C7, amended: the ticker's channel holds at most one firing; a firing that
\* finds the channel empty is kept and starts a tick once the scheduler is
\* idle, a firing that finds it full is discarded; ticks never outnumber
\* firings and a discarded firing is never made up.
C7_SlowTickDropsFirings ==
    /\ [](tickerC \in {0, 1} /\ Discarded >= 0)
    /\ [][(behind' > behind /\ tickerC = 0) => (tickerC' = 1 /\ Discarded' = Discarded)]_vars
    /\ [][(behind' > behind /\ tickerC = 1) => (tickerC' = 1 /\ Discarded' = Discarded + 1)]_vars
    /\ [][Alive' => Discarded' >= Discarded]_vars
    /\ []((Alive /\ pc = "idle" /\ tickerC = 1) => ENABLED TickStart)

\* The loop is back at the select, nothing waits, and one firing never got
\* its tick.
C7_Witness ==
    /\ Alive
    /\ pc = "idle"
    /\ tickerC = 0
    /\ behind = 1
    /\ calls.checks = 1

\* The documented drift: desired [10,20,30] against a window with uptime
\* [10,20] and no tms checks.
Scenario == u = <<10, 20, 30>> /\ m.uptime = <<10, 20>> /\ m.tms = <<>>

Commas(str) == Cardinality({i \in 1..Len(str) : str[i] = ","})

\* str is the comma separated form of the ID list ids: it reads back as ids,
\* holds one separator less than IDs, and neither starts nor ends with one.
IsCsvOf(str, ids) ==
    /\ ParseIds(str) = ids
    /\ Commas(str) = IF Len(ids) = 0 THEN 0 ELSE Len(ids) - 1
    /\ Len(str) > 0 => (str[1] # "," /\ str[Len(str)] # ",")
    /\ Len(ids) = 0 <=> Len(str) = 0

\* C9: in the payload of every PUT, uptimeids is the comma separated form of
\* the uptime list of the window passed to updatePingdomMaintenanceSchedule,
\* in order, and tmsids that of its tms list: [5,9] gives "5,9", [7] gives
\* "7", the empty list gives the empty string.
C9_UpdatePathConstruction ==
    pc = "update" =>
        LET b == put[1].body
        IN  /\ IsCsvOf(b.uptimeids, schedule.uptime)
            /\ IsCsvOf(b.tmsids, schedule.tms)
            /\ schedule.uptime = <<5, 9>> => b.uptimeids = <<"5", ",", "9">>
            /\ schedule.tms = <<7>> => b.tmsids = <<"7">>
            /\ schedule.tms = <<>> => b.tmsids = <<>>
            /\ schedule.uptime = <<>> => b.uptimeids = <<>>

C9_Witness ==
    /\ pc = "update"
    /\ schedule.uptime = <<5, 9>>
    /\ schedule.tms = <<7>>
    /\ put[1].body.uptimeids = <<"5", ",", "9">>
    /\ put[1].body.tmsids = <<"7">>
    /\ put[1].body.description = "sla"

\* 15:00 UTC of the day that the instant t falls on.
Nightly(t) == t - (t % (24 * 60 * 60)) + 15 * 60 * 60

\* C10: in the payload of every PUT, description, recurrence type, repeat
\* interval, effective-to and the tms IDs are those of the window fetched in
\* the same tick, which reconcile hands on unchanged; uptimeids is the desired
\* list; start is 15:00 UTC of the day the PUT is built on and end is 15
\* hours later, whatever from and to the fetched window has.
C10_PassThrough ==
    pc = "update" =>
        LET b == put[1].body
        IN  /\ b.description = m.description
            /\ b.recurrencetype = m.recurrencetype
            /\ b.repeatevery = m.repeatevery
            /\ b.effectiveto = m.effectiveto
            /\ ParseIds(b.tmsids) = m.tms
            /\ ParseIds(b.uptimeids) = u
            /\ schedule = [m EXCEPT !.uptime = u]
            /\ b.from = Nightly(put[1].t)
            /\ b.to = b.from + 15 * 60 * 60
            /\ put[1].t <= now

\* A PUT built at 23:00 for a window whose own start and end are others.
C10_Witness ==
    /\ pc = "update"
    /\ put[1].t = 23 * 60 * 60
    /\ m.description = "sla"
    /\ m.tms = <<7>>
    /\ m.from = 1000
    /\ put[1].body.from = 15 * 60 * 60
    /\ put[1].body.to = 30 * 60 * 60
    /\ put[1].body.description = "sla"

\* C11: reconcile is idempotent: for every fetched window W = m and desired
\* list D = u, checkMaintenanceSchedule applied to the window that
\* checkMaintenanceSchedule(W, D) returned, against the same D, answers
\* upToDate = true and returns that window unchanged.
C11_ReconcileIdempotent ==
    Decided =>
        LET first == CheckMaintenanceSchedule(m, u)
            second == CheckMaintenanceSchedule(first.schedule, u)
        IN  /\ first.schedule = schedule
            /\ first.upToDate = upToDate
            /\ second.upToDate
            /\ second.schedule = first.schedule

\* The first application rewrote the window, lists of different lengths.
C11_Witness ==
    /\ pc = "update"
    /\ m.uptime = <<9>>
    /\ u = <<5, 5>>
    /\ schedule.uptime = <<5, 5>>
    /\ schedule # m
    /\ CheckMaintenanceSchedule(schedule, u).upToDate

\* C12: the gauges are written by the fetches and by nothing else.  After a
\* successful desired-checks fetch slaTotal is the number of checks returned;
\* after a successful window fetch (the first or the refreshing one)
\* slaMaintenance is the length of the fetched uptime list; the return of
\* getPingdomChecks leaves slaMaintenance alone, the return of a window fetch
\* leaves slaTotal alone, the return of the update leaves both alone, and a
\* step in which no call returns (the decision, a scrape, a timer firing, the
\* start of a tick) leaves both alone, so both are constant while idle.
C12_GaugesTrackFetches ==
    /\ [][(pc = "getChecks" /\ pc' = "getWindow") =>
            (slaTotal' = Len(u') /\ slaTotal' = Len(provChecks))]_vars
    /\ [][(pc = "getWindow" /\ pc' \in {"update", "refetch"}) =>
            (slaMaintenance' = Len(m'.uptime) /\ m' = provWin)]_vars
    /\ [][(pc = "refetch" /\ pc' = "idle" /\ err' = "nil" /\ main' # "exited") =>
            slaMaintenance' = Len(provWin.uptime)]_vars
    /\ [][(main' # "exited" /\ pc # "getChecks") => slaTotal' = slaTotal]_vars
    /\ [][(main' # "exited" /\ pc \notin {"getWindow", "refetch"}) =>
            slaMaintenance' = slaMaintenance]_vars
    /\ [][(main' # "exited" /\ ~CallReturns) => UNCHANGED gauges]_vars
    /\ [][scrape' # scrape => UNCHANGED gauges]_vars

\* An update has gone through and a scrape has been served since: the window
\* gauge still shows the length fetched before the update.
C12_Witness ==
    /\ pc = "idle"
    /\ calls.update = 1
    /\ err = "nil"
    /\ provWin.uptime = <<2, 1>>
    /\ slaTotal = 2
    /\ slaMaintenance = 1
    /\ scrape = <<[total |-> 2, maintenance |-> 1]>>

\* C13: SIGINT and SIGTERM take a graceful path: in every state after
\* start-up, also while main serves the metrics endpoint and the scheduler
\* ticks, a delivered signal is followed by systemTeardown logging the
\* shutdown before the process exits; and after teardown no tick is started.
C13_SignalLogsShutdown ==
    /\ [][(Alive /\ main' = "exited") => teardown']_vars
    /\ [](teardown => (main = "exited" /\ pc = "idle"))
    /\ [][teardown => pc' = pc]_vars

\* C14: a tick blocked in a provider call does not block the exporter: in
\* every state in which main serves the endpoint and the scheduler is inside
\* a fetch or the update, a scrape can be served; a served scrape returns the
\* values the two gauges have at that moment and moves neither the scheduler
\* nor the gauges.
C14_ExporterNotBlocked ==
    /\ []((main = "serving" /\ pc # "idle") => ENABLED Scrape)
    /\ [][scrape' # scrape =>
            /\ scrape' = <<[total |-> slaTotal, maintenance |-> slaMaintenance]>>
            /\ UNCHANGED <<tickVars, gauges>>]_vars

\* A scrape has returned the gauges of a tick that is inside its update call.
C14_Witness ==
    /\ main = "serving"
    /\ pc = "update"
    /\ inflight = 1
    /\ slaTotal = 2
    /\ slaMaintenance = 1
    /\ scrape = <<[total |-> 2, maintenance |-> 1]>>

\* C15: the process gets past start-up only with a non-empty API_KEY and a
\* MAINTENANCE_ID that is a positive integer; otherwise it ends at start-up
\* before any tick or provider call; an unset POLL_INTERVAL gives 300
\* seconds and an unset METRICS_PORT gives port 9600.
C15_StartupContract ==
    /\ main \notin {"start", "fatal"} =>
           /\ environ.API_KEY # <<>>
           /\ AtoiOk(environ.MAINTENANCE_ID)
           /\ AtoiValue(environ.MAINTENANCE_ID) > 0
           /\ environ.POLL_INTERVAL = <<>> => e.pollInterval = 300
           /\ environ.METRICS_PORT = <<>> => e.metricsPort = <<"9", "6", "0", "0">>
    /\ main \in {"start", "fatal"} =>
           (pc = "idle" /\ calls = NoCalls /\ tickerC = 0 /\ inflight = 0)

\* C16: inside a tick the desired-checks fetch comes first; the window fetch
\* is issued only on the successful return of the checks fetch; the update
\* is issued only on the successful return of the window fetch with a
\* decision of not up to date; a tick whose checks fetch failed ends with no
\* window fetch and no update, and a tick whose window fetch failed ends with
\* no update.
C16_StepOrder ==
    /\ [](pc = "getChecks" => calls = [checks |-> 1, window |-> 0, update |-> 0])
    /\ [](pc = "getWindow" =>
            (calls = [checks |-> 1, window |-> 1, update |-> 0] /\ err = "nil"))
    /\ [](pc = "update" => (calls.checks = 1 /\ calls.window = 1 /\ ~upToDate))
    /\ [][calls'.window > calls.window =>
            \/ pc = "getChecks" /\ err' = "nil" /\ u' = provChecks
            \/ pc = "getWindow" /\ err' = "nil" /\ upToDate']_vars
    /\ [][calls'.update > calls.update =>
            (pc = "getWindow" /\ err' = "nil" /\ m' = provWin /\ ~upToDate')]_vars
    /\ [][(CallReturns /\ pc = "getChecks" /\ err' # "nil") =>
            (pc' = "idle" /\ calls' = calls /\ log' = "checksError")]_vars
    /\ [][(CallReturns /\ pc = "getWindow" /\ err' # "nil") =>
            (pc' = "idle" /\ calls' = calls /\ log' = "maintError")]_vars
    /\ [](log = "checksError" => (pc = "idle" /\ calls.window = 0 /\ calls.update = 0))
    /\ [](log = "maintError" => (pc = "idle" /\ calls.window = 1 /\ calls.update = 0))

\* A tick was abandoned on a failed window fetch, with no update issued.
C16_Witness ==
    /\ pc = "idle"
    /\ log = "maintError"
    /\ err = "transport"
    /\ calls = [checks |-> 1, window |-> 1, update |-> 0]
    /\ provWin.uptime # provChecks

\* C17: a tick that decided up to date issues one checks fetch, two window
\* fetches and no update; a tick that decided not up to date issues one
\* checks fetch, one window fetch and one update; no call is issued a second
\* time whatever it returns, and between ticks no call is issued.
C17_TickShape ==
    /\ [](pc = "refetch" =>
            (upToDate /\ calls = [checks |-> 1, window |-> 2, update |-> 0]))
    /\ [](pc = "update" =>
            (~upToDate /\ calls = [checks |-> 1, window |-> 1, update |-> 1]))
    /\ [](log = "upToDate" => calls = [checks |-> 1, window |-> 2, update |-> 0])
    /\ [](calls.update = 1 => calls = [checks |-> 1, window |-> 1, update |-> 1])
    /\ [][(CallReturns /\ pc \in {"update", "refetch"} /\ main' # "exited") =>
            (pc' = "idle" /\ calls' = calls)]_vars
    /\ [][(pc = "idle" /\ calls' # calls /\ main' # "exited") =>
            (pc' = "getChecks" /\ calls' = [checks |-> 1, window |-> 0, update |-> 0])]_vars
    /\ [](calls.checks <= 1 /\ calls.window <= 2 /\ calls.update <= 1)

\* An up-to-date tick has ended on a failed refresh of the window gauge.
C17_Witness ==
    /\ pc = "idle"
    /\ log = "upToDate"
    /\ err = "decode"
    /\ calls = [checks |-> 1, window |-> 2, update |-> 0]

\* The decision and the payload fields that a tick owes to its two fetches
\* alone, as functions of the fetched window w and the desired list d.
DecisionOf(w, d) == w.uptime = d
PayloadOf(w, d) ==
    [description    |-> w.description,
     recurrencetype |-> w.recurrencetype,
     repeatevery    |-> w.repeatevery,
     effectiveto    |-> w.effectiveto,
     uptimeids      |-> IntSliceToString(d),
     tmsids         |-> IntSliceToString(w.tms)]

\* C18: nothing is carried from one tick to the next: in every tick, whatever
\* ticks went before (failed fetches, refused or accepted updates, other
\* gauge values), the decision is one fixed function of the window and the
\* desired list fetched in that tick, and so are uptimeids, tmsids and the
\* pass-through fields of the payload; hence two executions that fetch the
\* same in a tick decide the same and send the same lists.
C18_NoStateBetweenTicks ==
    Decided =>
        /\ upToDate = DecisionOf(m, u)
        /\ (pc = "refetch") = DecisionOf(m, u)
        /\ pc = "update" =>
               LET b == put[1].body
               IN  [f \in DOMAIN PayloadOf(m, u) |-> b[f]] = PayloadOf(m, u)

\* An up-to-date decision on a window that the update of an earlier tick
\* wrote (its start is no longer the one the provider began with).
C18_Witness ==
    /\ pc = "refetch"
    /\ u = <<9, 5>>
    /\ m.uptime = <<9, 5>>
    /\ m.description = "sla"
    /\ m.from # 1000
    /\ upToDate

\* C19: whatever POLL_INTERVAL holds, the interval that newEnv stores and
\* pollAPI hands to the ticker is a positive number of seconds, so the
\* ticker is created and the loop is reached.
C19_IntervalPositive ==
    main \notin {"start", "fatal"} => (e.pollInterval > 0 /\ main # "panic")

\* C20, as claimed: at the end of every tick that reported up to date the
\* window gauge equals the desired gauge, whatever the second window fetch
\* returned.
C20_GaugesEqualAfterUpToDate ==
    [][(pc = "refetch" /\ pc' = "idle" /\ main' # "exited") =>
         slaMaintenance' = slaTotal']_vars

\* C20, amended: when a tick reports up to date both gauges equal the length
\* of the compared list; the second window fetch leaves the desired gauge
\* alone and sets the window gauge to the length of the list it fetched on
\* success, to 0 on a transport or decode error, and leaves it on a non-2xx
\* status.
C20_GaugesAfterRefetch ==
    /\ [](pc = "refetch" => (slaTotal = Len(u) /\ slaMaintenance = Len(u)))
    /\ [][(pc = "refetch" /\ pc' = "idle" /\ main' # "exited") =>
            /\ slaTotal' = slaTotal
            /\ err' = "nil" => slaMaintenance' = Len(provWin.uptime)
            /\ err' \in {"transport", "decode"} => slaMaintenance' = 0
            /\ err' = "status" => slaMaintenance' = slaMaintenance]_vars

\* An up-to-date tick on two checks has ended with the window gauge at 0.
C20_Witness ==
    /\ pc = "idle"
    /\ log = "upToDate"
    /\ err = "transport"
    /\ slaTotal = 2
    /\ slaMaintenance = 0

\* The one-shot run has taken its decision.
OneShotDecided == main = "oneshot" /\ pc \in {"decided", "update"}

\* The IDs of a list, and the place an ID first has in a list.
IdsOf(s) == {s[i] : i \in 1..Len(s)}
FirstIndex(s, x) == CHOOSE i \in 1..Len(s) : s[i] = x /\ \A j \in 1..(i - 1) : s[j] # x

\* C21: in the one-shot variant checkMaintenanceSchedule answers upToDate
\* exactly when every desired ID is a member of the window's uptime list,
\* whatever the order and whatever else the list holds, and then returns the
\* window unchanged; otherwise it returns the original list followed by the
\* missing desired IDs, each once, in the order of the desired list, so the
\* result holds every ID of the original list and every desired ID; and the
\* update, carrying that list, is sent only when the answer is not up to date.
C21_OneShotAppendsMissing ==
    /\ [](OneShotDecided =>
            LET W == m.uptime
                R == schedule.uptime
                added == SubSeq(R, Len(W) + 1, Len(R))
            IN  /\ upToDate <=> (IdsOf(u) \subseteq IdsOf(W))
                /\ upToDate => schedule = m
                /\ schedule = [m EXCEPT !.uptime = R]
                /\ Len(R) >= Len(W)
                /\ SubSeq(R, 1, Len(W)) = W
                /\ IdsOf(added) = IdsOf(u) \ IdsOf(W)
                /\ Cardinality(IdsOf(added)) = Len(added)
                /\ \A i, j \in 1..Len(added) :
                       i < j => FirstIndex(u, added[i]) < FirstIndex(u, added[j])
                /\ (IdsOf(W) \cup IdsOf(u)) \subseteq IdsOf(R)
                /\ pc = "update" =>
                       /\ ~upToDate
                       /\ Len(put) = 1
                       /\ ParseIds(put[1].body.uptimeids) = R)
    /\ []((main = "oneshot" /\ pc # "update") => (put = <<>> /\ calls.update = 0))
    /\ [][(pc = "decided" /\ upToDate) => (main' = "exited" /\ put' = <<>>)]_vars
    /\ [][(pc = "decided" /\ ~upToDate) => (pc' = "update" /\ calls'.update = 1)]_vars

\* The window lists [9] and the desired list is [5,5]: the update carries
\* [9,5], the missing ID once behind the original list.
C21_Witness ==
    /\ main = "oneshot"
    /\ pc = "update"
    /\ m.uptime = <<9>>
    /\ u = <<5, 5>>
    /\ schedule.uptime = <<9, 5>>
    /\ put[1].body.uptimeids = <<"9", ",", "5">>

=============================================================================
